---- MODULE Spec2Model ----
(***************************************************************************)
(* A state-machine model of main.py: the Transfer Stage                    *)
(* (transfer_a_to_e), the two paginated fetchers (fetch_article_pages,     *)
(* fetch_comments_with_selenium) and the Enrichment Stage                  *)
(* (write_bodies_and_comments), run in sequence by main.                   *)
(*                                                                         *)
(* Text cells are sequences of tokens (a token is a one-character or       *)
(* one-word string); " " is the whitespace token, <<>> the empty string.   *)
(* A datetime is a record of its wall-clock fields in JST (microseconds    *)
(* are dropped: every value compared here has microsecond = 0).            *)
(* An Optional value is <<>> (None) or <<v>>.                              *)
(***************************************************************************)
EXTENDS Integers, Sequences, FiniteSets, TLC

VARIABLES
    pc,            \* position of the running code
    stack,         \* the calls in progress: where each returns to, and where it raises to
    runs,          \* number of invocations started so far
    clock,         \* the wall clock (JST), read by jst_now()
    source,        \* the source sheet 'Yahoo'!A:D: whether it can be read, and its rows
    web,           \* scripted responses of the news site, per URL
    tab,           \* main: today_tab, <<>> before it is computed
    sheet,         \* the destination partition: a grid, row 1 is the header
    rows,          \* transfer_a_to_e: rows read from the source
    now,           \* transfer_a_to_e: now (Optional)
    start,         \* transfer_a_to_e: start (Optional)
    end,           \* transfer_a_to_e: end (Optional)
    existing,      \* transfer_a_to_e: existing
    i,             \* transfer_a_to_e: loop index into rows (1-based)
    to_append,     \* transfer_a_to_e: to_append
    added,         \* main: added (Optional)
    urls,          \* write_bodies_and_comments: urls
    idx,           \* write_bodies_and_comments: position in urls (1-based)
    rows_data,     \* write_bodies_and_comments: rows_data
    max_comments,  \* write_bodies_and_comments: max_comments
    base_url,      \* argument of the fetcher in progress
    page,          \* fetcher in progress: page number
    bodies,        \* fetch_article_pages: bodies
    comments,      \* fetch_comments_with_selenium: comments
    last_tail,     \* fetch_comments_with_selenium: last_tail (Optional)
    driver,        \* number of open rendering-client sessions
    bodyLog,       \* responses received by the fetch_article_pages call in progress
    commentLog,    \* pages extracted by the fetch_comments_with_selenium call in progress
    exc,           \* fetch_comments_with_selenium: an exception is passing through finally
    raised,        \* positions in urls at which a fetcher raised, in this invocation
    results,       \* what the fetchers returned for the URLs whose fetch did not raise
    written        \* blocks handed to ws.update / ws.append_rows in this invocation

vars == << pc, stack, runs, clock, source, web, tab, sheet, rows, now, start, end,
           existing, i, to_append, added, urls, idx, rows_data, max_comments,
           base_url, page, bodies, comments, last_tail, driver, bodyLog,
           commentLog, exc, raised, results, written >>

------------------------------------------------------------------------------
(* Bounds of the model *)

MaxSrcRows == 2        \* data rows of the source table
MaxRuns == 2           \* invocations of the job against the same partition
MaxCap == 4            \* the safety cap, scaled down from 5000 so that runs reach it
MaxPageLen == 2        \* comments on one comment page

------------------------------------------------------------------------------
(* Program constants *)

MAX_BODY_PAGES == 10

\* 5000 in the source; the model runs with the cap scaled to MaxCap
MAX_TOTAL_COMMENTS == MaxCap

------------------------------------------------------------------------------
(* Sequence helpers (Python list operations) *)

Last(s) == s[Len(s)]

\* mutant: the slice is not taken
Take_All(s, n) == s

Take(s, n) == SubSeq(s, 1, IF n < Len(s) THEN n ELSE Len(s))

Repeat(v, n) == [k \in 1..n |-> v]

Max(a, b) == IF a > b THEN a ELSE b

SeqRange(s) == { s[k] : k \in 1..Len(s) }

RECURSIVE LStrip(_)
LStrip(s) == IF s # <<>> /\ Head(s) = " " THEN LStrip(Tail(s)) ELSE s

RECURSIVE RStrip(_)
RStrip(s) == IF s # <<>> /\ Last(s) = " " THEN RStrip(SubSeq(s, 1, Len(s) - 1)) ELSE s

\* str.strip()
Strip(s) == RStrip(LStrip(s))

------------------------------------------------------------------------------
(* datetime *)

IsLeap(y) == (y % 4 = 0) /\ ((y % 100 # 0) \/ (y % 400 = 0))

DaysInMonth(y, m) ==
    IF m = 2 THEN (IF IsLeap(y) THEN 29 ELSE 28)
    ELSE IF m \in {4, 6, 9, 11} THEN 30 ELSE 31

DaysBeforeYear(y) ==
    (y - 1) * 365 + ((y - 1) \div 4) - ((y - 1) \div 100) + ((y - 1) \div 400)

RECURSIVE DaysBeforeMonth(_, _)
DaysBeforeMonth(y, m) ==
    IF m = 1 THEN 0 ELSE DaysBeforeMonth(y, m - 1) + DaysInMonth(y, m - 1)

\* date.toordinal()
ToOrdinal(dt) == DaysBeforeYear(dt.year) + DaysBeforeMonth(dt.year, dt.month) + dt.day

SecOfDay(dt) == dt.hour * 3600 + dt.minute * 60 + dt.second

DateTime(y, mo, d, h, mi, s) ==
    [year |-> y, month |-> mo, day |-> d, hour |-> h, minute |-> mi, second |-> s]

\* date.fromordinal(n) at time-of-day sod
FromOrdinal(n, sod) ==
    LET y  == CHOOSE yy \in 1899..2100 :
                  DaysBeforeYear(yy) < n /\ n <= DaysBeforeYear(yy + 1)
        r  == n - DaysBeforeYear(y)
        mo == CHOOSE m \in 1..12 :
                  DaysBeforeMonth(y, m) < r /\ r <= DaysBeforeMonth(y, m) + DaysInMonth(y, m)
    IN  DateTime(y, mo, r - DaysBeforeMonth(y, mo),
                 sod \div 3600, (sod % 3600) \div 60, sod % 60)

\* dt + timedelta(days=days, seconds=secs), secs >= 0
PlusDelta(dt, days, secs) ==
    LET t == SecOfDay(dt) + secs
    IN  FromOrdinal(ToOrdinal(dt) + days + (t \div 86400), t % 86400)

\* dt.replace(hour=h, minute=mi, second=s, microsecond=0)
ReplaceTime(dt, h, mi, s) == [dt EXCEPT !.hour = h, !.minute = mi, !.second = s]

\* a <= b on datetimes of the same tzinfo
DtLE(a, b) ==
    \/ ToOrdinal(a) < ToOrdinal(b)
    \/ ToOrdinal(a) = ToOrdinal(b) /\ SecOfDay(a) <= SecOfDay(b)

------------------------------------------------------------------------------
(* Timestamp normaliser and display format *)

None == <<>>

Some(v) == <<v>>

\* A raw posted-at value. kind is the shape of the cell's text:
\*   "md_hm"    MM/DD HH:MM             "ymd_hm"  YYYY/MM/DD HH:MM
\*   "ymd_hms"  YYYY/MM/DD HH:MM:SS     "text"    any other string (also "")
\*   "serial"   a number: d days and s seconds after the Excel epoch
\*   "none"     None
Raw(kind, y, mo, d, h, mi, s) ==
    [kind |-> kind, y |-> y, mo |-> mo, d |-> d, h |-> h, mi |-> mi, s |-> s]

RawEmpty == Raw("text", 0, 0, 0, 0, 0, 0)

\* datetime.strptime(s, fmt) raises ValueError unless the fields are in range
FieldsValid(y, mo, d, h, mi, s) ==
    /\ mo \in 1..12
    /\ d >= 1 /\ d <= DaysInMonth(y, mo)
    /\ h \in 0..23 /\ mi \in 0..59 /\ s \in 0..59

parse_post_date(raw, today_jst) ==
    IF raw.kind = "none" THEN None
    ELSE IF raw.kind = "md_hm" THEN
        \* strptime without %Y parses into the year 1900, then the year is replaced
        IF FieldsValid(1900, raw.mo, raw.d, raw.h, raw.mi, 0)
        THEN Some(DateTime(today_jst.year, raw.mo, raw.d, raw.h, raw.mi, 0))
        ELSE None
    ELSE IF raw.kind = "ymd_hm" THEN
        IF FieldsValid(raw.y, raw.mo, raw.d, raw.h, raw.mi, 0)
        THEN Some(DateTime(raw.y, raw.mo, raw.d, raw.h, raw.mi, 0))
        ELSE None
    ELSE IF raw.kind = "ymd_hms" THEN
        IF FieldsValid(raw.y, raw.mo, raw.d, raw.h, raw.mi, raw.s)
        THEN Some(DateTime(raw.y, raw.mo, raw.d, raw.h, raw.mi, raw.s))
        ELSE None
    ELSE IF raw.kind = "serial" THEN
        Some(PlusDelta(DateTime(1899, 12, 30, 0, 0, 0), raw.d, raw.s))
    ELSE None

Pad2(n) == IF n < 10 THEN <<"0", ToString(n)>> ELSE <<ToString(n)>>

format_yy_m_d_hm(dt) ==
    Pad2(dt.year % 100) \o <<"/", ToString(dt.month), "/", ToString(dt.day), " ">>
        \o Pad2(dt.hour) \o <<":">> \o Pad2(dt.minute)

------------------------------------------------------------------------------
(* Window *)

\* mutant: the start is taken two days back
WindowStart_TwoDaysBack(t) == ReplaceTime(PlusDelta(t, -2, 0), 15, 0, 0)

WindowStart(t) == ReplaceTime(PlusDelta(t, -1, 0), 15, 0, 0)

\* mutant: the end is forced to 15:00:00
WindowEnd_At1500(t) == ReplaceTime(t, 15, 0, 0)

WindowEnd(t) == ReplaceTime(t, 14, 59, 59)

------------------------------------------------------------------------------
(* The destination worksheet: a grid of cells, kept without trailing empty  *)
(* cells and rows, as the sheet API reports it.                             *)

Empty == <<>>

RECURSIVE TrimRight(_)
TrimRight(row) ==
    IF row # <<>> /\ Last(row) = Empty THEN TrimRight(SubSeq(row, 1, Len(row) - 1)) ELSE row

RECURSIVE TrimRows(_)
TrimRows(g) ==
    IF g # <<>> /\ Last(g) = <<>> THEN TrimRows(SubSeq(g, 1, Len(g) - 1)) ELSE g

Cell(g, r, c) == IF r <= Len(g) /\ c <= Len(g[r]) THEN g[r][c] ELSE Empty

\* ws.row_values(r)
RowValues(g, r) == IF r <= Len(g) THEN TrimRight(g[r]) ELSE <<>>

\* ws.col_values(c)
ColValues(g, c) == TrimRight([r \in 1..Len(g) |-> Cell(g, r, c)])

\* ws.update(<cell at row r0, column c0>, block)
Update(g, r0, c0, block) ==
    LET nrows == Max(Len(g), r0 + Len(block) - 1)
        NewRow(r) ==
            LET old == IF r <= Len(g) THEN g[r] ELSE <<>>
                b   == IF r >= r0 /\ r < r0 + Len(block) THEN block[r - r0 + 1] ELSE <<>>
                n   == IF b = <<>> THEN Len(old) ELSE Max(Len(old), c0 + Len(b) - 1)
            IN  TrimRight([c \in 1..n |->
                    IF c >= c0 /\ c < c0 + Len(b) THEN b[c - c0 + 1]
                    ELSE IF c <= Len(old) THEN old[c] ELSE Empty])
    IN  TrimRows([r \in 1..nrows |-> NewRow(r)])

\* mutant: the block is written from row 2, over the rows that are there
AppendRows_FromRowTwo(g, block) == Update(g, 2, 1, block)

\* ws.append_rows(block): the block goes below the last row that holds data
AppendRows(g, block) == Update(g, Len(g) + 1, 1, block)

HeaderAE == << <<"source">>, <<"title">>, <<"URL">>, <<"posted">>, <<"site">> >>

\* ws after ensure_ae_header(ws)
ensure_ae_header(g) ==
    IF RowValues(g, 1) # HeaderAE THEN Update(g, 1, 1, <<HeaderAE>>) ELSE g

\* mutant: the ledger skips one row too many (vals[2:])
get_existing_urls_SkipsTwo(g) ==
    LET vals == ColValues(g, 3)
    IN  IF Len(vals) > 2 THEN SeqRange(Tail(Tail(vals))) ELSE {}

get_existing_urls(g) ==
    LET vals == ColValues(g, 3)
    IN  IF Len(vals) > 1 THEN SeqRange(Tail(vals)) ELSE {}

\* ws after ensure_body_comment_headers(ws, n)
HeaderTarget(n) ==
    HeaderAE \o [k \in 1..MAX_BODY_PAGES |-> <<"body", ToString(k)>>]
             \o << <<"comment_count">> >>
             \o [k \in 1..Max(1, n) |-> <<"comment", ToString(k)>>]

ensure_body_comment_headers(g, n) ==
    IF RowValues(g, 1) # HeaderTarget(n) THEN Update(g, 1, 1, <<HeaderTarget(n)>>) ELSE g

------------------------------------------------------------------------------
(* Call and return *)

Frame(ret, handler) == [ret |-> ret, handler |-> handler]

\* return to the caller
Return == pc' = Head(stack).ret /\ stack' = Tail(stack)

\* raise out of the running function, to the caller's except clause if it has
\* one and else through the caller
Raise == pc' = Head(stack).handler /\ stack' = Tail(stack)

TransferLocals == << rows, now, start, end, existing, i, to_append >>

EnrichLocals == << urls, idx, rows_data, max_comments, results >>

FetchLocals ==
    << base_url, page, bodies, comments, last_tail, driver, bodyLog, commentLog, exc >>

Environment == << clock, source, web >>

------------------------------------------------------------------------------
(* Transfer Stage: transfer_a_to_e *)

YahooCell == <<"Yahoo">>

\* r[k].strip() if len(r) > k and r[k] else ""      (k counted from 1 here)
Field(r, k) == IF Len(r) >= k /\ r[k] # <<>> THEN Strip(r[k]) ELSE <<>>

\* mutant: the lower bound is exclusive
InWindow_StartExcluded(dt, s, e) == ~DtLE(dt, s) /\ DtLE(dt, e)

\* start <= dt <= end
InWindow(dt, s, e) == DtLE(s, dt) /\ DtLE(dt, e)

\* the body of the for loop for one data row: <<>> when the row is skipped,
\* else the one staged row
StageRow(r, t, s, e, ex) ==
    LET title      == Field(r, 1)
        url        == Field(r, 2)
        posted_raw == IF Len(r) > 2 THEN r[3] ELSE RawEmpty
        site       == Field(r, 4)
        dt         == parse_post_date(posted_raw, t)
    IN  IF title = <<>> \/ url = <<>> THEN <<>>
        ELSE IF dt = None \/ ~InWindow(dt[1], s, e) THEN <<>>
        ELSE IF url \in ex THEN <<>>
        ELSE << <<YahooCell, title, url, format_yy_m_d_hm(dt[1]), site>> >>

\* lines 138-140 raise: the source spreadsheet cannot be opened or read
TransferSourceFails ==
    /\ pc = "transfer"
    /\ ~source.reachable
    /\ Raise
    /\ UNCHANGED << runs, tab, sheet, added, written >>
    /\ UNCHANGED << TransferLocals, EnrichLocals, FetchLocals, Environment >>
    /\ UNCHANGED raised

\* lines 138-149: read the source, compute the window, write the header,
\* read the ledger
TransferBegin ==
    /\ pc = "transfer"
    /\ source.reachable
    /\ rows' = source.table
    /\ now' = Some(clock)
    /\ start' = Some(WindowStart(clock))
    /\ end' = Some(WindowEnd(clock))
    /\ sheet' = ensure_ae_header(sheet)
    /\ existing' = get_existing_urls(ensure_ae_header(sheet))
    /\ to_append' = <<>>
    /\ i' = 1
    /\ pc' = "t_loop"
    /\ written' = IF RowValues(sheet, 1) # HeaderAE
                  THEN Append(written, <<"A1", <<HeaderAE>> >>)
                  ELSE written
    /\ UNCHANGED << stack, runs, tab, added >>
    /\ UNCHANGED << EnrichLocals, FetchLocals, Environment >>
    /\ UNCHANGED raised

\* lines 150-164: one iteration of the for loop (the first row is the header)
TransferRow ==
    /\ pc = "t_loop"
    /\ i <= Len(rows)
    /\ to_append' = IF i = 1 THEN to_append
                    ELSE to_append \o StageRow(rows[i], now[1], start[1], end[1], existing)
    /\ i' = i + 1
    /\ UNCHANGED << pc, stack, runs, tab, sheet, added, written >>
    /\ UNCHANGED << rows, now, start, end, existing >>
    /\ UNCHANGED << EnrichLocals, FetchLocals, Environment >>
    /\ UNCHANGED raised

\* lines 166-169: the bulk append and the return
TransferEnd ==
    /\ pc = "t_loop"
    /\ i > Len(rows)
    /\ sheet' = IF to_append # <<>> THEN AppendRows(sheet, to_append) ELSE sheet
    /\ written' = IF to_append # <<>> THEN Append(written, <<"append", to_append>>) ELSE written
    /\ added' = Some(Len(to_append))
    /\ Return
    /\ UNCHANGED << runs, tab >>
    /\ UNCHANGED << TransferLocals, EnrichLocals, FetchLocals, Environment >>
    /\ UNCHANGED raised

\* the Transfer Stage is run once more, on the same source at the same instant
TransferAgain ==
    /\ pc \in {"exit", "exit_raised"}
    /\ runs < MaxRuns
    /\ runs' = runs + 1
    /\ pc' = "transfer"
    /\ stack' = << Frame("exit", "exit_raised") >>
    /\ written' = <<>>
    /\ UNCHANGED << tab, sheet, added >>
    /\ UNCHANGED << TransferLocals, EnrichLocals, FetchLocals, Environment >>
    /\ UNCHANGED raised

------------------------------------------------------------------------------
(* The news site *)

\* an HTTP answer to a body-page request: "ok" with the body text extracted
\* from it, "fail" for a request-level failure (timeout, non-2xx), "error"
\* for a document whose parsing raises
BodyResponse(kind, text) == [kind |-> kind, text |-> text]

\* an answer of the rendering client: "ok" with the texts the selectors match,
\* "error" when loading or reading the page raises, "nodriver" when the
\* session cannot be started
CommentResponse(kind, items) == [kind |-> kind, items |-> items]

\* a site answers anything (any = TRUE) or follows a script, page by page,
\* and answers with an empty page after the script's end
SiteOf(any, body, cmts) == [any |-> any, body |-> body, comments |-> cmts]

AnySite == SiteOf(TRUE, <<>>, <<>>)

------------------------------------------------------------------------------
(* Inputs of the Transfer Stage *)

TitleT == <<"t">>

UrlU == <<"u">>

UrlUPadded == <<" ", "u", " ">>

UrlV == <<"v">>

SiteS == <<"s">>

UrlW == <<"w">>

Urls == {UrlU, UrlV, UrlW}

Blank == <<" ">>

\* 2025-08-20 12:00:00 as a serial number, inside the window of 2025-08-20
RawInside == Raw("serial", 0, 0, 45889, 0, 0, 43200)

RawSet ==
    { Raw("md_hm", 0, 8, 19, 15, 0, 0),           \* 08/19 15:00
      Raw("ymd_hms", 2025, 8, 19, 14, 59, 59),    \* 2025/08/19 14:59:59
      Raw("ymd_hms", 2025, 8, 20, 14, 59, 59),    \* 2025/08/20 14:59:59
      Raw("ymd_hm", 2025, 8, 20, 15, 0, 0),       \* 2025/08/20 15:00
      Raw("md_hm", 0, 2, 29, 10, 0, 0),           \* 02/29 10:00
      RawInside }

SrcRowSet ==
    { <<TitleT, UrlU, raw, SiteS>> : raw \in RawSet }
    \cup { <<TitleT, UrlUPadded, raw, SiteS>> : raw \in {RawInside, Raw("md_hm", 0, 8, 19, 15, 0, 0)} }
    \cup { <<TitleT, UrlV, RawInside, SiteS>>, <<TitleT, UrlV, RawInside>>,
           <<TitleT, UrlV, Raw("ymd_hm", 2025, 8, 20, 15, 0, 0), SiteS>> }
    \cup { <<t, UrlU, RawInside, SiteS>> : t \in {<<>>, Blank} }
    \cup { <<TitleT, u, RawInside, SiteS>> : u \in {<<>>, Blank} }
    \cup { <<TitleT, UrlU>>, <<TitleT>> }

SrcHeader == << <<"title">>, <<"URL">>, <<"posted">>, <<"site">> >>

RECURSIVE SeqsUpTo(_, _)
SeqsUpTo(S, n) ==
    IF n = 0 THEN { <<>> }
    ELSE LET shorter == SeqsUpTo(S, n - 1)
         IN  shorter \cup { Append(q, x) : q \in { t \in shorter : Len(t) = n - 1 }, x \in S }

SourceSet ==
    { [reachable |-> TRUE, table |-> <<SrcHeader>> \o t] : t \in SeqsUpTo(SrcRowSet, MaxSrcRows) }
    \cup { [reachable |-> TRUE, table |-> <<>>], [reachable |-> FALSE, table |-> <<>>] }

\* reference instants of the transfer runs
NowSet == { DateTime(2025, 8, 20, 9, 30, 0), DateTime(2025, 8, 21, 16, 0, 0) }

\* reference instants of the window computation: around 15:00, at both ends of
\* the day, after a month end, a leap day and a year end
WindowNowSet ==
    { DateTime(d[1], d[2], d[3], t[1], t[2], t[3]) :
        d \in { <<2025, 8, 20>>, <<2025, 1, 1>>, <<2024, 3, 1>>, <<2025, 3, 1>>, <<2024, 12, 31>> },
        t \in { <<0, 0, 0>>, <<9, 30, 0>>, <<14, 59, 58>>, <<14, 59, 59>>,
                <<15, 0, 0>>, <<15, 0, 1>>, <<23, 59, 59>> } }

\* a new tab, and a tab a previous run left with one row
SheetSet ==
    { <<>>,
      << HeaderAE, <<YahooCell, TitleT, UrlU, <<"25", "/", "8", "/", "20", " ", "0", "9", ":", "0", "0">>, SiteS>> >> }

Idle ==
    /\ runs = 1
    /\ tab = <<>>
    /\ rows = <<>> /\ now = None /\ start = None /\ end = None
    /\ existing = {} /\ i = 1 /\ to_append = <<>> /\ added = None
    /\ urls = <<>> /\ idx = 1 /\ rows_data = <<>> /\ max_comments = 0
    /\ raised = {} /\ results = <<>>
    /\ base_url = <<>> /\ page = 1 /\ bodies = <<>> /\ comments = <<>>
    /\ last_tail = None /\ driver = 0 /\ bodyLog = <<>> /\ commentLog = <<>>
    /\ exc = FALSE
    /\ written = <<>>

InitTransfer ==
    /\ Idle
    /\ pc = "transfer"
    /\ stack = << Frame("exit", "exit_raised") >>
    /\ clock \in NowSet
    /\ source \in SourceSet
    /\ web = [u \in Urls |-> AnySite]
    /\ sheet \in SheetSet

NextTransfer ==
    \/ TransferSourceFails
    \/ TransferBegin
    \/ TransferRow
    \/ TransferEnd
    \/ TransferAgain

SpecTransfer == InitTransfer /\ [][NextTransfer]_vars

\* the window alone: many reference instants, few source tables
InitWindow ==
    /\ Idle
    /\ pc = "transfer"
    /\ stack = << Frame("exit", "exit_raised") >>
    /\ clock \in WindowNowSet
    /\ source \in { [reachable |-> TRUE, table |-> <<SrcHeader>>],
                    [reachable |-> TRUE, table |-> <<SrcHeader, <<TitleT, UrlU, RawInside, SiteS>> >>],
                    [reachable |-> FALSE, table |-> <<>>] }
    /\ web = [u \in Urls |-> AnySite]
    /\ sheet = <<>>

SpecWindow == InitWindow /\ [][NextTransfer]_vars

------------------------------------------------------------------------------
(* Properties of the Transfer Stage *)

\* the URL cells of the partition, row 2 onward
UrlColumn(g) == { Cell(g, r, 3) : r \in 2..Len(g) }

\* seconds from a to b
Elapsed(a, b) == (ToOrdinal(b) - ToOrdinal(a)) * 86400 + SecOfDay(b) - SecOfDay(a)

TimeOfDay(dt) == <<dt.hour, dt.minute, dt.second>>

\* C1: within one transfer run no URL occurs in more than one row of the
\* staged batch.
C1_NoUrlStagedTwice ==
    \A j, k \in 1..Len(to_append) : j # k => to_append[j][3] # to_append[k][3]

\* C2: a transfer run appends no row whose URL was already in the partition's
\* URL column (row 2 onward) when the run started; a second run on an
\* unchanged source therefore appends nothing for the URLs the first run wrote.
C2_NoRestaging ==
    [][ \A r \in (Len(sheet) + 1)..Len(sheet') :
            r >= 2 => Cell(sheet', r, 3) \notin UrlColumn(sheet) ]_vars

\* a second run has ended without appending although a source row passes
\* every test but the ledger's
C2_Witness ==
    /\ runs = 2 /\ pc = "exit" /\ added = Some(0)
    /\ \E k \in 2..Len(rows) : StageRow(rows[k], now[1], start[1], end[1], {}) # <<>>

\* C3: start is at 15:00:00, end at 14:59:59, and end = start + 24h - 1s.
C3_WindowShape ==
    start # None =>
        /\ TimeOfDay(start[1]) = <<15, 0, 0>>
        /\ TimeOfDay(end[1]) = <<14, 59, 59>>
        /\ Elapsed(start[1], end[1]) = 86400 - 1

\* a window computed on the day after a leap day
C3_Witness == start # None /\ now[1].month = 3 /\ now[1].day = 1 /\ now[1].year = 2024

\* C4 as stated: start is 15:00 of the previous day when now is at or after
\* 15:00 and of the day before that when now is before 15:00; end <= now.
C4_CompletedCycle ==
    start # None =>
        /\ TimeOfDay(start[1]) = <<15, 0, 0>>
        /\ ToOrdinal(start[1]) =
               ToOrdinal(now[1]) - (IF SecOfDay(now[1]) >= 15 * 3600 THEN 1 ELSE 2)
        /\ DtLE(end[1], now[1])

\* C4 amended: start is 15:00 of the previous calendar day and end is 14:59:59
\* of now's own calendar day, whatever now's clock time; end <= now exactly
\* when now's clock time is at or after 14:59:59.
C4_PreviousDayAlways ==
    start # None =>
        /\ TimeOfDay(start[1]) = <<15, 0, 0>>
        /\ ToOrdinal(start[1]) = ToOrdinal(now[1]) - 1
        /\ ToOrdinal(end[1]) = ToOrdinal(now[1])
        /\ (Elapsed(end[1], now[1]) >= 0) <=> (SecOfDay(now[1]) >= 15 * 3600 - 1)

\* a window computed before 15:00, ending after now
C4_Witness == start # None /\ SecOfDay(now[1]) < 15 * 3600 - 1 /\ ~DtLE(end[1], now[1])

\* C5: a record with non-empty title and URL whose URL is no duplicate is
\* staged exactly when its timestamp normalises to a T with
\* start <= T <= end, both bounds included.
C5_Precondition(r) ==
    /\ Len(r) >= 2
    /\ Strip(r[1]) # <<>> /\ Strip(r[2]) # <<>>
    /\ Strip(r[2]) \notin UrlColumn(sheet)
    /\ \A k \in 1..Len(to_append) : to_append[k][3] # Strip(r[2])

C5_Normalises(r) == Len(r) >= 3 /\ parse_post_date(r[3], now[1]) # None

C5_Admitted(r) ==
    /\ C5_Normalises(r)
    /\ Elapsed(start[1], parse_post_date(r[3], now[1])[1]) >= 0
    /\ Elapsed(parse_post_date(r[3], now[1])[1], end[1]) >= 0

C5_InclusiveWindow ==
    [][ (pc = "t_loop" /\ i >= 2 /\ i <= Len(rows) /\ C5_Precondition(rows[i])) =>
            IF C5_Admitted(rows[i])
            THEN /\ Len(to_append') = Len(to_append) + 1
                 /\ Last(to_append')[3] = Strip(rows[i][2])
                 /\ SubSeq(to_append', 1, Len(to_append)) = to_append
            ELSE to_append' = to_append ]_vars

\* two rows have been processed: one at T = start, staged, and one at
\* T = end + 1s, rejected
C5_Witness ==
    /\ pc = "t_loop" /\ i = 4 /\ Len(to_append) = 1
    /\ C5_Normalises(rows[2]) /\ C5_Normalises(rows[3])
    /\ Elapsed(start[1], parse_post_date(rows[2][3], now[1])[1]) = 0
    /\ Elapsed(end[1], parse_post_date(rows[3][3], now[1])[1]) = 1
    /\ Strip(rows[2][2]) # Strip(rows[3][2])

------------------------------------------------------------------------------
(* Paginated fetcher, article body: fetch_article_pages *)

BodyTexts == { <<"A">>, <<"B">>, <<"C">> }

AllBodyResponses ==
    { BodyResponse("ok", t) : t \in BodyTexts \cup {<<>>} }
    \cup { BodyResponse("fail", <<>>), BodyResponse("error", <<>>) }

Site(u) == IF u \in DOMAIN web THEN web[u] ELSE AnySite

\* what requests.get and the extraction can give for page p of url u
BodyResponses(u, p) ==
    IF Site(u).any THEN AllBodyResponses
    ELSE IF p <= Len(Site(u).body) THEN { Site(u).body[p] }
    ELSE { BodyResponse("ok", <<>>) }

\* mutant: only the empty page stops the pagination
BodyStop_EmptyOnly(bs, body_text) == body_text = <<>>

\* mutant: only the repeated page stops the pagination
BodyStop_RepeatOnly(bs, body_text) == bs # <<>> /\ body_text = Last(bs)

\* line 203: not body_text or (bodies and body_text == bodies[-1])
BodyStop(bs, body_text) == body_text = <<>> \/ (bs # <<>> /\ body_text = Last(bs))

\* mutant: requests.get and raise_for_status() are not inside a try statement
BodyPage_FailureRaises ==
    /\ pc = "b_loop"
    /\ page <= MAX_BODY_PAGES
    /\ \E resp \in BodyResponses(base_url, page) :
        /\ bodyLog' = Append(bodyLog, resp)
        /\ IF resp.kind \in {"error", "fail"}
           THEN Raise /\ raised' = raised \cup {idx} /\ UNCHANGED << bodies, page >>
           ELSE IF BodyStop(bodies, resp.text)
           THEN pc' = "b_return" /\ UNCHANGED << stack, bodies, page, raised >>
           ELSE /\ bodies' = Append(bodies, resp.text)
                /\ page' = page + 1
                /\ UNCHANGED << pc, stack, raised >>
    /\ UNCHANGED << runs, tab, sheet, added, written >>
    /\ UNCHANGED << base_url, comments, last_tail, driver, commentLog, exc >>
    /\ UNCHANGED << TransferLocals, EnrichLocals, Environment >>

\* lines 176-205: one iteration of the for loop
BodyPage ==
    /\ pc = "b_loop"
    /\ page <= MAX_BODY_PAGES
    /\ \E resp \in BodyResponses(base_url, page) :
        /\ bodyLog' = Append(bodyLog, resp)
        /\ IF resp.kind = "error"
           THEN Raise /\ raised' = raised \cup {idx} /\ UNCHANGED << bodies, page >>
           ELSE IF resp.kind = "fail" \/ BodyStop(bodies, resp.text)
           THEN pc' = "b_return" /\ UNCHANGED << stack, bodies, page, raised >>
           ELSE /\ bodies' = Append(bodies, resp.text)
                /\ page' = page + 1
                /\ UNCHANGED << pc, stack, raised >>
    /\ UNCHANGED << runs, tab, sheet, added, written >>
    /\ UNCHANGED << base_url, comments, last_tail, driver, commentLog, exc >>
    /\ UNCHANGED << TransferLocals, EnrichLocals, Environment >>

\* line 176: the range is exhausted
BodyExhausted ==
    /\ pc = "b_loop"
    /\ page > MAX_BODY_PAGES
    /\ pc' = "b_return"
    /\ UNCHANGED << stack, runs, tab, sheet, added, written >>
    /\ UNCHANGED << TransferLocals, EnrichLocals, FetchLocals, Environment >>
    /\ UNCHANGED raised

\* line 206
BodyReturn ==
    /\ pc = "b_return"
    /\ Return
    /\ UNCHANGED << runs, tab, sheet, added, written >>
    /\ UNCHANGED << TransferLocals, EnrichLocals, FetchLocals, Environment >>
    /\ UNCHANGED raised

------------------------------------------------------------------------------
(* Paginated fetcher, comments: fetch_comments_with_selenium *)

CommentTexts == { <<"x">>, <<"y">>, <<"z">> }

AllCommentResponses ==
    { CommentResponse("ok", q) : q \in SeqsUpTo(CommentTexts, MaxPageLen) }
    \cup { CommentResponse("error", <<>>) }

\* whether webdriver.Chrome() can succeed, can fail
DriverStarts(u) ==
    IF Site(u).any THEN BOOLEAN
    ELSE { ~(Site(u).comments # <<>> /\ Site(u).comments[1].kind = "nodriver") }

\* what driver.get and the extraction can give for comment page p of url u
CommentResponses(u, p) ==
    IF Site(u).any THEN AllCommentResponses
    ELSE IF p <= Len(Site(u).comments) THEN { Site(u).comments[p] }
    ELSE { CommentResponse("ok", <<>>) }

\* mutant: the page is taken as extracted
Dedup_Keep(items) == items

\* list(dict.fromkeys(items))
RECURSIVE Dedup(_)
Dedup(items) ==
    IF items = <<>> THEN <<>>
    ELSE LET front == Dedup(SubSeq(items, 1, Len(items) - 1))
         IN  IF Last(items) \in SeqRange(front) THEN front ELSE Append(front, Last(items))

\* mutant: only the empty page stops the pagination
CommentStop_EmptyOnly(tail, page_comments) == page_comments = <<>>

\* lines 253-258: the two stop tests
CommentStop(tail, page_comments) ==
    \/ page_comments = <<>>
    \/ tail # None /\ page_comments # <<>> /\ page_comments[1] = tail[1]

\* mutant: the cap fires only when the total exceeds it
CapReached_OnlyAbove(cs) == Len(cs) > MAX_TOTAL_COMMENTS

\* lines 264-265
CapReached(cs) == Len(cs) >= MAX_TOTAL_COMMENTS

\* lines 215-225: start the session
CommentsStart ==
    /\ pc = "fetch_comments"
    /\ \E ok \in DriverStarts(base_url) :
        IF ok THEN /\ driver' = driver + 1
                   /\ pc' = "c_loop"
                   /\ UNCHANGED << stack, raised >>
        ELSE Raise /\ raised' = raised \cup {idx} /\ UNCHANGED driver
    /\ comments' = <<>>
    /\ last_tail' = None
    /\ page' = 1
    /\ UNCHANGED << runs, tab, sheet, added, written >>
    /\ UNCHANGED << base_url, bodies, bodyLog, commentLog, exc >>
    /\ UNCHANGED << TransferLocals, EnrichLocals, Environment >>

\* lines 227-270: one iteration of the while loop
CommentPage ==
    /\ pc = "c_loop"
    /\ \E resp \in CommentResponses(base_url, page) :
        LET page_comments == Dedup(resp.items)
            extended      == comments \o page_comments
        IN  IF resp.kind # "ok"
            THEN /\ exc' = TRUE
                 /\ pc' = "c_finally"
                 /\ UNCHANGED << comments, last_tail, page, commentLog >>
            ELSE /\ commentLog' = Append(commentLog, page_comments)
                 /\ exc' = FALSE
                 /\ IF CommentStop(last_tail, page_comments)
                    THEN pc' = "c_finally" /\ UNCHANGED << comments, last_tail, page >>
                    ELSE IF CapReached(extended)
                    THEN /\ comments' = Take(extended, MAX_TOTAL_COMMENTS)
                         /\ pc' = "c_finally"
                         /\ UNCHANGED << last_tail, page >>
                    ELSE /\ comments' = extended
                         /\ last_tail' = Some(Last(page_comments))
                         /\ page' = page + 1
                         /\ UNCHANGED pc
    /\ UNCHANGED << stack, runs, tab, sheet, added, written >>
    /\ UNCHANGED << base_url, bodies, driver, bodyLog >>
    /\ UNCHANGED << TransferLocals, EnrichLocals, Environment >>
    /\ UNCHANGED raised

\* mutant: driver.quit() sits after the loop, not in a finally clause
CommentsFinally_QuitOnReturnOnly ==
    /\ pc = "c_finally"
    /\ driver' = IF exc THEN driver ELSE driver - 1
    /\ exc' = FALSE
    /\ IF exc THEN Raise /\ raised' = raised \cup {idx} ELSE Return /\ UNCHANGED raised
    /\ UNCHANGED << runs, tab, sheet, added, written >>
    /\ UNCHANGED << base_url, page, bodies, comments, last_tail, bodyLog, commentLog >>
    /\ UNCHANGED << TransferLocals, EnrichLocals, Environment >>

\* lines 272-275: driver.quit(), then the return or the exception goes on
CommentsFinally ==
    /\ pc = "c_finally"
    /\ driver' = driver - 1
    /\ exc' = FALSE
    /\ IF exc THEN Raise /\ raised' = raised \cup {idx} ELSE Return /\ UNCHANGED raised
    /\ UNCHANGED << runs, tab, sheet, added, written >>
    /\ UNCHANGED << base_url, page, bodies, comments, last_tail, bodyLog, commentLog >>
    /\ UNCHANGED << TransferLocals, EnrichLocals, Environment >>

------------------------------------------------------------------------------
(* Enrichment Stage: write_bodies_and_comments *)

\* a number written into a cell
NumCell(n) == <<n>>

\* line 293
BodyCells(bs) == Take(bs, MAX_BODY_PAGES) \o Repeat(Empty, MAX_BODY_PAGES - Len(bs))

\* lines 293-295
EnrichedRow(bs, cs) == BodyCells(bs) \o << NumCell(Len(cs)) >> \o cs

\* mutant: the degraded row lacks its comment count
DegradedRow_NoCount == Repeat(Empty, MAX_BODY_PAGES)

\* line 301
DegradedRow == Repeat(Empty, MAX_BODY_PAGES) \o << NumCell(0) >>

\* line 304
NeedCols(mc) == MAX_BODY_PAGES + 1 + mc

\* mutant: short rows are left as they are
PadRow_Never(row, need) == row

\* lines 306-307
PadRow(row, need) == IF Len(row) < need THEN row \o Repeat(Empty, need - Len(row)) ELSE row

\* lines 279-286
WriteBegin ==
    /\ pc = "write"
    /\ LET vals  == ColValues(sheet, 3)
           found == IF vals = <<>> THEN <<>> ELSE Tail(vals)
       IN  /\ urls' = found
           /\ IF Len(found) = 0 THEN Return ELSE pc' = "w_loop" /\ UNCHANGED stack
    /\ rows_data' = <<>>
    /\ max_comments' = 0
    /\ idx' = 1
    /\ raised' = {}
    /\ results' = <<>>
    /\ UNCHANGED << runs, tab, sheet, added, written >>
    /\ UNCHANGED << TransferLocals, FetchLocals, Environment >>

\* lines 287-290: the next URL, and the call of fetch_article_pages
WriteNextUrl ==
    /\ pc = "w_loop"
    /\ idx <= Len(urls)
    /\ stack' = << Frame("w_after_body", "w_except") >> \o stack
    /\ pc' = "b_loop"
    /\ base_url' = urls[idx]
    /\ page' = 1
    /\ bodies' = <<>>
    /\ bodyLog' = <<>>
    /\ commentLog' = <<>>
    /\ comments' = <<>>
    /\ last_tail' = None
    /\ UNCHANGED << runs, tab, sheet, added, written, raised >>
    /\ UNCHANGED << driver, exc >>
    /\ UNCHANGED << TransferLocals, EnrichLocals, Environment >>

\* line 291: the call of fetch_comments_with_selenium
WriteCallComments ==
    /\ pc = "w_after_body"
    /\ stack' = << Frame("w_after_comments", "w_except") >> \o stack
    /\ pc' = "fetch_comments"
    /\ UNCHANGED << runs, tab, sheet, added, written, raised >>
    /\ UNCHANGED << TransferLocals, EnrichLocals, FetchLocals, Environment >>

\* mutant: each row is written to the sheet as soon as it is assembled
WriteRow_WritesAtOnce ==
    /\ pc = "w_after_comments"
    /\ rows_data' = Append(rows_data, EnrichedRow(bodies, comments))
    /\ max_comments' = IF Len(comments) > max_comments THEN Len(comments) ELSE max_comments
    /\ results' = Append(results, [at |-> idx, url |-> base_url, bodies |-> bodies, comments |-> comments])
    /\ idx' = idx + 1
    /\ pc' = "w_loop"
    /\ sheet' = Update(sheet, idx + 1, 6, << EnrichedRow(bodies, comments) >>)
    /\ written' = Append(written, <<"F2", << EnrichedRow(bodies, comments) >> >>)
    /\ UNCHANGED << stack, runs, tab, added, raised, urls >>
    /\ UNCHANGED << TransferLocals, FetchLocals, Environment >>

\* lines 293-298: the row of a URL whose fetches returned
WriteRow ==
    /\ pc = "w_after_comments"
    /\ rows_data' = Append(rows_data, EnrichedRow(bodies, comments))
    /\ max_comments' = IF Len(comments) > max_comments THEN Len(comments) ELSE max_comments
    /\ results' = Append(results, [at |-> idx, url |-> base_url, bodies |-> bodies, comments |-> comments])
    /\ idx' = idx + 1
    /\ pc' = "w_loop"
    /\ UNCHANGED << stack, runs, tab, sheet, added, written, raised, urls >>
    /\ UNCHANGED << TransferLocals, FetchLocals, Environment >>

\* lines 299-301: the row of a URL whose fetch raised
WriteExcept ==
    /\ pc = "w_except"
    /\ rows_data' = Append(rows_data, DegradedRow)
    /\ idx' = idx + 1
    /\ pc' = "w_loop"
    /\ UNCHANGED << stack, runs, tab, sheet, added, written, raised, urls, max_comments, results >>
    /\ UNCHANGED << TransferLocals, FetchLocals, Environment >>

\* lines 303-310: pad the rows, then the header
WriteHeader ==
    /\ pc = "w_loop"
    /\ idx > Len(urls)
    /\ rows_data' = [k \in 1..Len(rows_data) |-> PadRow(rows_data[k], NeedCols(max_comments))]
    /\ sheet' = ensure_body_comment_headers(sheet, max_comments)
    /\ written' = IF RowValues(sheet, 1) # HeaderTarget(max_comments)
                  THEN Append(written, <<"A1", <<HeaderTarget(max_comments)>> >>)
                  ELSE written
    /\ pc' = "w_update"
    /\ UNCHANGED << stack, runs, tab, added, raised, urls, idx, max_comments, results >>
    /\ UNCHANGED << TransferLocals, FetchLocals, Environment >>

\* lines 313-315: the bulk update, and the return
WriteUpdate ==
    /\ pc = "w_update"
    /\ sheet' = IF rows_data # <<>> THEN Update(sheet, 2, 6, rows_data) ELSE sheet
    /\ written' = IF rows_data # <<>> THEN Append(written, <<"F2", rows_data>>) ELSE written
    /\ Return
    /\ UNCHANGED << runs, tab, added, raised >>
    /\ UNCHANGED << TransferLocals, EnrichLocals, FetchLocals, Environment >>

------------------------------------------------------------------------------
(* main *)

\* jst_now().strftime("%y%m%d")
TabKey(dt) == Pad2(dt.year % 100) \o Pad2(dt.month) \o Pad2(dt.day)

\* lines 319-323: the client, the destination, today's tab (a new tab is empty)
MainStart ==
    /\ pc = "main"
    /\ tab' = Some(TabKey(clock))
    /\ sheet' = IF tab = None \/ tab = Some(TabKey(clock)) THEN sheet ELSE <<>>
    /\ pc' = "m_transfer"
    /\ UNCHANGED << stack, runs, added, written, raised >>
    /\ UNCHANGED << TransferLocals, EnrichLocals, FetchLocals, Environment >>

\* line 326: the call of transfer_a_to_e
MainTransfer ==
    /\ pc = "m_transfer"
    /\ stack' = << Frame("m_enrich", "aborted") >> \o stack
    /\ pc' = "transfer"
    /\ UNCHANGED << runs, tab, sheet, added, written, raised >>
    /\ UNCHANGED << TransferLocals, EnrichLocals, FetchLocals, Environment >>

\* line 330: the call of write_bodies_and_comments
MainEnrich ==
    /\ pc = "m_enrich"
    /\ stack' = << Frame("done", "aborted") >> \o stack
    /\ pc' = "write"
    /\ UNCHANGED << runs, tab, sheet, added, written, raised >>
    /\ UNCHANGED << TransferLocals, EnrichLocals, FetchLocals, Environment >>

\* the job is started again
MainAgain ==
    /\ pc \in {"done", "aborted"}
    /\ runs < MaxRuns
    /\ runs' = runs + 1
    /\ pc' = "main"
    /\ stack' = <<>>
    /\ written' = <<>>
    /\ added' = None
    /\ UNCHANGED << tab, sheet, raised >>
    /\ UNCHANGED << TransferLocals, EnrichLocals, FetchLocals, Environment >>

\* time passes between the two calls of jst_now()
MainClockSet ==
    { DateTime(2025, 8, 20, 9, 30, 0), DateTime(2025, 8, 20, 23, 59, 59),
      DateTime(2025, 8, 21, 0, 0, 10) }

Tick ==
    /\ pc = "m_transfer"
    /\ \E t \in MainClockSet :
        /\ ~DtLE(t, clock)
        /\ clock' = t
    /\ UNCHANGED << pc, stack, runs, tab, sheet, added, written, raised, source, web >>
    /\ UNCHANGED << TransferLocals, EnrichLocals, FetchLocals >>

------------------------------------------------------------------------------
(* Specifications of the fetchers, the Enrichment Stage and the whole job *)

CallFrame == << Frame("exit", "exit_raised") >>

InitBody ==
    /\ Idle
    /\ pc = "b_loop"
    /\ stack = CallFrame
    /\ clock = DateTime(2025, 8, 20, 9, 30, 0)
    /\ source = [reachable |-> TRUE, table |-> <<>>]
    /\ web = [u \in Urls |-> AnySite]
    /\ sheet = <<>>

NextBody == BodyPage \/ BodyExhausted \/ BodyReturn

SpecBody == InitBody /\ [][NextBody]_vars

InitComments ==
    /\ Idle
    /\ pc = "fetch_comments"
    /\ stack = CallFrame
    /\ clock = DateTime(2025, 8, 20, 9, 30, 0)
    /\ source = [reachable |-> TRUE, table |-> <<>>]
    /\ web = [u \in Urls |-> AnySite]
    /\ sheet = <<>>

NextComments == CommentsStart \/ CommentPage \/ CommentsFinally

SpecComments == InitComments /\ [][NextComments]_vars

\* the interpreter keeps running the function: a step that can be taken is taken
SpecCommentsFair == SpecComments /\ WF_vars(NextComments)

TextA == <<"A">>

TextB == <<"B">>

TextX == <<"x">>

TextY == <<"y">>

OkBody(t) == BodyResponse("ok", t)

OkPage(q) == CommentResponse("ok", q)

\* an article of ten pages and more
LongBody == [k \in 1..(MAX_BODY_PAGES + 1) |-> OkBody(IF k % 2 = 1 THEN TextA ELSE TextB)]

SiteSet ==
    { SiteOf(FALSE, <<>>, <<>>),
      SiteOf(FALSE, <<OkBody(TextA), OkBody(TextB), OkBody(TextB)>>,
                    <<OkPage(<<TextX, TextY>>), OkPage(<<TextY, TextX>>)>>),
      SiteOf(FALSE, <<OkBody(TextA)>>,
                    <<OkPage(<<TextX>>), OkPage(<<TextY>>), OkPage(<<TextX>>)>>),
      SiteOf(FALSE, <<BodyResponse("fail", <<>>)>>, <<OkPage(<<TextX, TextX>>)>>),
      \* the request for the second of three body pages fails
      SiteOf(FALSE, <<OkBody(TextA), BodyResponse("fail", <<>>), OkBody(TextB)>>,
                    <<OkPage(<<TextX>>)>>),
      SiteOf(FALSE, <<BodyResponse("error", <<>>)>>, <<OkPage(<<TextX>>)>>),
      SiteOf(FALSE, <<OkBody(TextA)>>, <<OkPage(<<TextX>>), CommentResponse("error", <<>>)>>),
      SiteOf(FALSE, <<OkBody(TextA)>>, <<CommentResponse("nodriver", <<>>)>>),
      SiteOf(FALSE, LongBody, <<>>) }

PostedCell == <<"25", "/", "8", "/", "20", " ", "0", "9", ":", "0", "0">>

DataRow(u) == <<YahooCell, TitleT, u, PostedCell, SiteS>>

EnrichSheetSet ==
    { <<>>,
      <<HeaderAE>>,
      <<HeaderAE, DataRow(UrlU)>>,
      <<HeaderAE, DataRow(UrlU), DataRow(UrlV)>>,
      <<HeaderAE, DataRow(UrlU), DataRow(UrlU)>>,
      <<HeaderAE, DataRow(UrlU), DataRow(UrlV), DataRow(UrlW)>>,
      \* a tab that an earlier invocation has enriched, three comments wide
      <<HeaderTarget(3), DataRow(UrlU) \o EnrichedRow(<<TextA>>, <<TextX, TextY, TextX>>)>> }

InitEnrich ==
    /\ Idle
    /\ pc = "write"
    /\ stack = CallFrame
    /\ clock = DateTime(2025, 8, 20, 9, 30, 0)
    /\ source = [reachable |-> TRUE, table |-> <<>>]
    /\ web \in [Urls -> SiteSet]
    /\ sheet \in EnrichSheetSet

NextEnrich ==
    \/ WriteBegin
    \/ WriteNextUrl
    \/ WriteCallComments
    \/ WriteRow
    \/ WriteExcept
    \/ WriteHeader
    \/ WriteUpdate
    \/ BodyPage
    \/ BodyExhausted
    \/ BodyReturn
    \/ CommentsStart
    \/ CommentPage
    \/ CommentsFinally

SpecEnrich == InitEnrich /\ [][NextEnrich]_vars

MainSiteSet ==
    { SiteOf(FALSE, <<OkBody(TextA), OkBody(TextB), OkBody(TextB)>>,
                    <<OkPage(<<TextX, TextY>>), OkPage(<<TextY, TextX>>)>>),
      SiteOf(FALSE, <<OkBody(TextA)>>, <<OkPage(<<TextX>>), CommentResponse("error", <<>>)>>),
      SiteOf(FALSE, LongBody, <<CommentResponse("nodriver", <<>>)>>) }

MainSourceSet ==
    { [reachable |-> FALSE, table |-> <<>>],
      [reachable |-> TRUE, table |-> <<SrcHeader>>],
      [reachable |-> TRUE,
       table |-> <<SrcHeader, <<TitleT, UrlU, RawInside, SiteS>>,
                              <<TitleT, UrlV, Raw("md_hm", 0, 8, 20, 16, 0, 0), SiteS>> >>],
      [reachable |-> TRUE,
       table |-> <<SrcHeader, <<TitleT, UrlV, RawInside, SiteS>>,
                              <<TitleT, UrlV, RawInside, SiteS>> >>] }

Init ==
    /\ Idle
    /\ pc = "main"
    /\ stack = <<>>
    /\ clock \in MainClockSet
    /\ source \in MainSourceSet
    /\ web \in [Urls -> MainSiteSet]
    /\ sheet \in { <<>>, <<HeaderAE, DataRow(UrlU)>> }

Next ==
    \/ MainStart
    \/ Tick
    \/ MainTransfer
    \/ TransferSourceFails
    \/ TransferBegin
    \/ TransferRow
    \/ TransferEnd
    \/ MainEnrich
    \/ WriteBegin
    \/ WriteNextUrl
    \/ WriteCallComments
    \/ WriteRow
    \/ WriteExcept
    \/ WriteHeader
    \/ WriteUpdate
    \/ BodyPage
    \/ BodyExhausted
    \/ BodyReturn
    \/ CommentsStart
    \/ CommentPage
    \/ CommentsFinally
    \/ MainAgain

Spec == Init /\ [][Next]_vars

------------------------------------------------------------------------------
(* Properties of the fetchers *)

Min(a, b) == IF a < b THEN a ELSE b

\* the first k answers are pages, each non-empty and different from the one before
BodyPrefixGood(log, k) ==
    \A j \in 1..k :
        /\ log[j].kind = "ok"
        /\ log[j].text # <<>>
        /\ j > 1 => log[j].text # log[j - 1].text

\* the length of the longest such prefix, at most MAX_BODY_PAGES
BodyPrefixLen(log) ==
    CHOOSE k \in 0..Min(Len(log), MAX_BODY_PAGES) :
        /\ BodyPrefixGood(log, k)
        /\ k < Min(Len(log), MAX_BODY_PAGES) => ~BodyPrefixGood(log, k + 1)

\* C6: fetch_article_pages returns the longest prefix p1..pk, k <= 10, of the
\* fetched pages in which every page is non-empty and differs from the page
\* before it; the page that stops the pagination is the last one fetched.
C6_LongestGoodPrefix ==
    pc = "b_return" =>
        /\ bodies = [j \in 1..BodyPrefixLen(bodyLog) |-> bodyLog[j].text]
        /\ Len(bodyLog) <= Len(bodies) + 1
        /\ Len(bodyLog) <= MAX_BODY_PAGES

\* pages A, B, B have given A, B
C6_Witness ==
    /\ pc = "b_return"
    /\ bodyLog = <<BodyResponse("ok", <<"A">>), BodyResponse("ok", <<"B">>), BodyResponse("ok", <<"B">>)>>
    /\ bodies = << <<"A">>, <<"B">> >>

RECURSIVE Flatten(_)
Flatten(pages) == IF pages = <<>> THEN <<>> ELSE Head(pages) \o Flatten(Tail(pages))

\* page j is empty, or (j > 1) its first comment is the last comment of the
\* pages before it
StopsAt(log, j) ==
    \/ log[j] = <<>>
    \/ /\ j > 1
       /\ Flatten(SubSeq(log, 1, j - 1)) # <<>>
       /\ log[j][1] = Last(Flatten(SubSeq(log, 1, j - 1)))

\* the number of pages before the first page that stops the pagination
PagesBeforeStop(log) ==
    CHOOSE k \in 0..Len(log) :
        /\ \A j \in 1..k : ~StopsAt(log, j)
        /\ k < Len(log) => StopsAt(log, k + 1)

BeforeStop(log) == Flatten(SubSeq(log, 1, PagesBeforeStop(log)))

\* C7 as stated: the result is the concatenation of the pages before the
\* first page that is empty or starts with the last accumulated comment.
C7_ConcatenationBeforeStop ==
    (pc = "c_finally" /\ ~exc) => comments = BeforeStop(commentLog)

\* C7 amended: the result is that concatenation cut to its first
\* MAX_TOTAL_COMMENTS entries; nothing of the stopping page is in it and the
\* stopping page is the last page loaded.
C7_ConcatenationUpToCap ==
    (pc = "c_finally" /\ ~exc) =>
        /\ comments = Take(BeforeStop(commentLog), MAX_TOTAL_COMMENTS)
        /\ Len(commentLog) <= PagesBeforeStop(commentLog) + 1

\* pages [x, y], [y, x] have given x, y
C7_Witness ==
    /\ pc = "c_finally" /\ ~exc
    /\ commentLog = << << <<"x">>, <<"y">> >>, << <<"y">>, <<"x">> >> >>
    /\ comments = << <<"x">>, <<"y">> >>

\* C11: the accumulated sequence never has more than MAX_TOTAL_COMMENTS
\* entries; when appending a page makes the total reach or exceed the cap,
\* the result is the first MAX_TOTAL_COMMENTS accumulated comments and the
\* loop is left: no further page is loaded.
C11_CapExact ==
    [][ /\ Len(comments') <= MAX_TOTAL_COMMENTS
        /\ (pc = "c_loop" /\ commentLog' # commentLog) =>
               LET p     == Last(commentLog')
                   stops == p = <<>> \/ (comments # <<>> /\ p[1] = Last(comments))
               IN  (~stops /\ Len(comments) + Len(p) >= MAX_TOTAL_COMMENTS) =>
                       /\ comments' = SubSeq(comments \o p, 1, MAX_TOTAL_COMMENTS)
                       /\ pc' = "c_finally" /\ ~exc'
        /\ pc = "c_finally" => (commentLog' = commentLog /\ page' = page) ]_vars

\* the fetch has ended at the cap, and the last page was cut
C11_Witness ==
    /\ pc = "c_finally" /\ ~exc
    /\ Len(comments) = MAX_TOTAL_COMMENTS
    /\ Len(Flatten(commentLog)) > MAX_TOTAL_COMMENTS
    /\ comments = SubSeq(Flatten(commentLog), 1, MAX_TOTAL_COMMENTS)

NoRepeat(q) == \A j, k \in 1..Len(q) : j # k => q[j] # q[k]

\* C12 as stated: no comment text occurs more than once in the returned
\* sequence.
C12_NoTextTwice == (pc = "c_finally" /\ ~exc) => NoRepeat(comments)

\* C12 amended: the comments that one page contributes hold no text twice,
\* and the first of them differs from the last comment accumulated before;
\* a text of an earlier page that comes back elsewhere is appended again.
C12_NoRepeatWithinPage ==
    [][ (pc = "c_loop" /\ comments' # comments) =>
            LET added_here == SubSeq(comments', Len(comments) + 1, Len(comments'))
            IN  /\ SubSeq(comments', 1, Len(comments)) = comments
                /\ NoRepeat(added_here)
                /\ comments # <<>> => added_here[1] # Last(comments) ]_vars

\* pages [x, y], [z, x] have been appended: x is in the result twice
C12_Witness ==
    /\ pc \in {"c_loop", "c_finally"} /\ ~exc
    /\ Len(commentLog) >= 2
    /\ commentLog[1] = << <<"x">>, <<"y">> >>
    /\ commentLog[2] = << <<"z">>, <<"x">> >>
    /\ SubSeq(comments, 1, 4) = << <<"x">>, <<"y">>, <<"z">>, <<"x">> >>

\* C13 as stated: no two entries of the returned body pages, adjacent or
\* not, hold the same text; each is non-empty; there are 0..10 of them.
C13_AllDistinct ==
    pc = "b_return" =>
        /\ NoRepeat(bodies)
        /\ \A j \in 1..Len(bodies) : bodies[j] # <<>>
        /\ Len(bodies) \in 0..10

\* C13 amended: every entry differs from the entry before it (entries that
\* are not adjacent may hold the same text); each is non-empty; there are
\* 0..10 of them.
C13_AdjacentDistinct ==
    pc = "b_return" =>
        /\ \A j \in 2..Len(bodies) : bodies[j] # bodies[j - 1]
        /\ \A j \in 1..Len(bodies) : bodies[j] # <<>>
        /\ Len(bodies) \in 0..10

\* pages A, B, A have been returned
C13_Witness ==
    /\ pc = "b_return"
    /\ bodies = << <<"A">>, <<"B">>, <<"A">> >>

\* C14: whatever pages the site supplies, without end, the fetch comes to
\* its end, and it loads at most MAX_TOTAL_COMMENTS pages: page, the number
\* of the page being loaded, never passes MAX_TOTAL_COMMENTS.
C14_Terminates ==
    /\ [](page <= MAX_TOTAL_COMMENTS /\ Len(commentLog) <= MAX_TOTAL_COMMENTS)
    /\ <>(pc \in {"exit", "exit_raised"})

\* the fetch has returned after MAX_TOTAL_COMMENTS page loads, each of the
\* pages before the last having added one comment
C14_Witness ==
    /\ pc = "exit"
    /\ Len(commentLog) = MAX_TOTAL_COMMENTS
    /\ \A k \in 1..(MAX_TOTAL_COMMENTS - 1) : Len(commentLog[k]) = 1

------------------------------------------------------------------------------
(* Properties of the Enrichment Stage *)

\* the largest comment count among the rows of this invocation
MaxCount == 
    LET counts == { Len(results[k].comments) : k \in 1..Len(results) } \cup {0}
    IN  CHOOSE m \in counts : \A n \in counts : n <= m

LabelsOf(header, word) == { c \in 1..Len(header) : header[c][1] = word }

\* the header that the invocation has put in row 1: its first 16 + max(1, M) cells
EmittedHeader == Take(RowValues(sheet, 1), 16 + Max(1, MaxCount))

\* C8: every row handed to the bulk write has 10 + 1 + M cells, and the
\* header has max(1, M) comment labels after the 5 fixed, the 10 body-page
\* and the comment-count labels.
C8_UniformWidth ==
    pc = "w_update" =>
        /\ \A k \in 1..Len(rows_data) : Len(rows_data[k]) = 10 + 1 + MaxCount
        /\ Len(EmittedHeader) = 5 + 10 + 1 + Max(1, MaxCount)
        /\ SubSeq(EmittedHeader, 1, 5) = HeaderAE
        /\ LabelsOf(EmittedHeader, "body") = 6..15
        /\ LabelsOf(EmittedHeader, "comment_count") = {16}
        /\ LabelsOf(EmittedHeader, "comment") = 17..(16 + Max(1, MaxCount))
        /\ \A w \in 1..Len(written) :
               written[w][1] = "A1" => Len(written[w][2][1]) = 16 + Max(1, MaxCount)

CountOf(row) == row[MAX_BODY_PAGES + 1][1]

\* three rows with comment counts 0, 3, 1 are about to be written
C8_Witness ==
    /\ pc = "w_update"
    /\ Len(rows_data) = 3
    /\ <<CountOf(rows_data[1]), CountOf(rows_data[2]), CountOf(rows_data[3])>> = <<0, 3, 1>>

\* 10 empty body cells, comment count 0, no comment
IsDegraded(row) ==
    /\ Len(row) >= 11
    /\ \A c \in 1..Len(row) : IF c = 11 THEN row[c] = <<0>> ELSE row[c] = <<>>

\* the bulk write of this invocation
BulkBlock == written[Len(written)][2]

\* C9 as stated: a fetch that raises never aborts the stage: n rows are
\* written, and row k is the degraded row exactly when the fetch of URL k
\* raised.
C9_DegradedExactlyWhenRaised ==
    (pc = "exit" /\ urls # <<>>) =>
        /\ written # <<>> /\ written[Len(written)][1] = "F2"
        /\ Len(BulkBlock) = Len(urls)
        /\ \A k \in 1..Len(urls) : IsDegraded(BulkBlock[k]) <=> k \in raised

\* C9 amended: a fetch that raises never aborts the stage: all n URLs are
\* processed in row order and n rows are written; row k is the degraded row
\* whenever the fetch of URL k raised, and holds what the fetchers returned
\* for URL k otherwise.
C9_FailureIsolated ==
    (pc = "exit" /\ urls # <<>>) =>
        /\ idx = Len(urls) + 1
        /\ written # <<>> /\ written[Len(written)][1] = "F2"
        /\ Len(BulkBlock) = Len(urls)
        /\ \A k \in 1..Len(urls) :
            /\ IF k \in raised
               THEN IsDegraded(BulkBlock[k])
               ELSE \E j \in 1..Len(results) :
                      /\ results[j].at = k /\ results[j].url = urls[k]
                      /\ SubSeq(BulkBlock[k], 1, 10) =
                             [c \in 1..10 |-> IF c <= Len(results[j].bodies)
                                              THEN results[j].bodies[c] ELSE <<>>]
                      /\ BulkBlock[k][11] = << Len(results[j].comments) >>
                      /\ \A c \in 12..Len(BulkBlock[k]) :
                             BulkBlock[k][c] = IF c - 11 <= Len(results[j].comments)
                                               THEN results[j].comments[c - 11] ELSE <<>>
            /\ \A c \in 1..Len(BulkBlock[k]) : Cell(sheet, k + 1, 5 + c) = BulkBlock[k][c]
        /\ pc # "exit_raised"

\* three URLs, the fetch of the second raised, three rows are written
C9_Witness ==
    /\ pc = "exit" /\ Len(urls) = 3 /\ raised = {2}
    /\ Len(BulkBlock) = 3
    /\ IsDegraded(BulkBlock[2]) /\ ~IsDegraded(BulkBlock[1]) /\ ~IsDegraded(BulkBlock[3])

\* C15: a rendering-client session is open only while
\* fetch_comments_with_selenium is in its loop or its finally clause: at most
\* one session is open at any point, none is open when the next URL's fetches
\* begin or a row is assembled, and none when the Enrichment Stage has ended.
C15_SessionScoped ==
    /\ driver \in {0, 1}
    /\ driver = 1 => pc \in {"c_loop", "c_finally"}
    /\ pc \in {"w_loop", "b_loop", "b_return", "w_after_body", "fetch_comments",
               "w_after_comments", "w_except", "w_update", "exit", "exit_raised"}
           => driver = 0

\* the second URL's body fetch is running after the first URL's comment fetch
\* raised while loading its second page; no session is open
C15_Witness ==
    /\ pc = "b_loop" /\ idx = 2 /\ raised = {1}
    /\ Site(urls[1]).comments # <<>>
    /\ Last(Site(urls[1]).comments).kind = "error"
    /\ driver = 0

\* C16: a request-level failure on body page k ends the pagination without
\* raising: the function returns the pages 1..k-1 collected so far, requests
\* no further page, and the row assembled for the URL holds these pages and
\* the comments fetched for it.
C16_RequestFailureStops ==
    [][ /\ (pc = "b_loop" /\ bodyLog' # bodyLog /\ Last(bodyLog').kind = "fail") =>
               /\ pc' = "b_return" /\ stack' = stack /\ raised' = raised
               /\ bodies' = [j \in 1..Len(bodyLog) |-> bodyLog[j].text]
        /\ (pc = "b_return" /\ Last(bodyLog).kind = "fail") =>
               /\ pc' = "w_after_body"
               /\ bodyLog' = bodyLog /\ bodies' = bodies
        /\ (pc = "w_after_comments" /\ bodyLog # <<>> /\ Last(bodyLog).kind = "fail") =>
               /\ idx \notin raised
               /\ Len(rows_data') = Len(rows_data) + 1
               /\ SubSeq(Last(rows_data'), 1, 10) =
                      [c \in 1..10 |-> IF c < Len(bodyLog) THEN bodyLog[c].text ELSE <<>>]
               /\ Last(rows_data')[11] = << Len(comments) >> ]_vars

\* the request for page 2 of the first URL failed: its row holds page 1, its
\* one comment, and the third page was never requested
C16_Witness ==
    /\ pc = "w_loop" /\ idx = 2 /\ raised = {}
    /\ Len(Site(urls[1]).body) = 3
    /\ Len(bodyLog) = 2 /\ bodyLog[2].kind = "fail"
    /\ rows_data[1][1] = <<"A">> /\ rows_data[1][2] = <<>>
    /\ rows_data[1][11] = <<1>>

\* the writes of an invocation that has processed its URLs: at most one
\* header write, then one bulk update of as many rows as there are URLs
WritesOfOneInvocation(w) ==
    /\ Len(w) \in {1, 2}
    /\ w[Len(w)][1] = "F2"
    /\ Len(w) = 2 => w[1][1] = "A1"
    /\ Len(w[Len(w)][2]) = Len(urls)

\* C17: the URLs are processed one after the other, the body fetch of a URL
\* before its comment fetch and both before the next URL; nothing is written
\* to the partition while a URL is unprocessed; then the header is written
\* (once, when it differs) and all rows go out in one bulk update whose
\* first cell is F2.
C17_WritesAfterAllUrls ==
    [][ /\ (sheet' # sheet \/ written' # written) =>
               /\ pc \in {"w_loop", "w_update"}
               /\ idx = Len(urls) + 1
               /\ Len(rows_data) = Len(urls)
        /\ (pc' = "b_loop" /\ pc # "b_loop") =>
               /\ pc = "w_loop" /\ Len(rows_data) = idx - 1 /\ base_url' = urls[idx]
        /\ (pc' = "w_after_body") => pc = "b_return"
        /\ (pc' = "fetch_comments") => pc = "w_after_body"
        /\ (pc' = "c_loop" /\ pc # "c_loop") => pc = "fetch_comments"
        /\ (pc' = "w_after_comments") => pc = "c_finally"
        /\ (pc' = "w_loop" /\ pc # "w_loop") =>
               /\ pc \in {"write", "w_after_comments", "w_except"}
               /\ Len(stack') = 1
        /\ (pc' = "exit" /\ urls' # <<>>) =>
               /\ WritesOfOneInvocation(written')
               /\ \A k \in 1..Len(urls) : \A c \in 1..Len(rows_data[k]) :
                      Cell(sheet', k + 1, 5 + c) = rows_data[k][c] ]_vars

\* three URLs have been processed; the header and then the rows were written
C17_Witness ==
    /\ pc = "exit" /\ Len(urls) = 3
    /\ Len(written) = 2 /\ written[1][1] = "A1" /\ written[2][1] = "F2"
    /\ Len(written[2][2]) = 3

------------------------------------------------------------------------------
(* Properties of the whole job *)

\* C10: when reading the source fails the run goes on with zero records: it
\* is not terminated, and the Enrichment Stage is still executed.
C10_SourceFailureTolerated == ~source.reachable => pc # "aborted"

\* C18: while the job works on one partition, across runs,
\* no step makes the partition shorter and no step changes one of the five
\* prefix cells of a data row that is already there.
C18_PartitionOnlyGrows ==
    [][ tab' = tab =>
            /\ Len(sheet') >= Len(sheet)
            /\ \A r \in 2..Len(sheet) : \A c \in 1..5 :
                   Cell(sheet', r, c) = Cell(sheet, r, c) ]_vars

\* a second run has appended to the partition that the first run enriched,
\* and has enriched it again
C18_Witness ==
    /\ runs = 2 /\ pc = "done"
    /\ \E k \in 1..Len(written) : written[k][1] = "append"
    /\ written[Len(written)][1] = "F2"
    /\ Len(sheet) >= 3 /\ Len(sheet[2]) > 5

\* the number of non-empty comment cells of a row of the partition
StoredComments(row) == Cardinality({ c \in 17..Len(row) : row[c] # <<>> })

\* C19: when an Enrichment Stage run over a partition that earlier runs have
\* enriched has ended, the comment-count cell of every data row equals the
\* number of non-empty comment cells to its right, and the header ends with
\* the last comment label of the current width, max(1, M).
C19_NoStaleCells ==
    (pc = "exit" /\ urls # <<>>) =>
        /\ \A r \in 2..Len(sheet) : Cell(sheet, r, 16) = << StoredComments(sheet[r]) >>
        /\ Len(RowValues(sheet, 1)) = 16 + Max(1, max_comments)

\* C20: the date in the partition key is the date of window.end, also when
\* the clock advances between the key's computation in main and the window's
\* computation in transfer_a_to_e.
C20_KeyMatchesWindow ==
    pc \in {"t_loop", "m_enrich"} => tab = Some(TabKey(end[1]))

====
